---- MODULE Spec2Model ----
(***************************************************************************)
(* Verification model of src/recommendation-engine/ml_service.py:          *)
(* EmbeddingService (construction, generate_embedding and                  *)
(* find_similar_services), CoPurchasePatternMiner.mine_patterns,           *)
(* EventDetector.detect_events and MLOrchestrator.run_daily_jobs.          *)
(*                                                                         *)
(* Real numbers are kept exact.  A cosine similarity c is represented by   *)
(* the rational sgn(c)*c^2 = <<n, d>> (d > 0); x |-> sgn(x)*x^2 is         *)
(* strictly increasing, so comparing these rationals compares the          *)
(* similarities.  Supports, confidences and lifts are rationals <<n, d>>.  *)
(***************************************************************************)
EXTENDS Integers, Sequences, FiniteSets, TLC

VARIABLES
    \* ---- EmbeddingService.find_similar_services --------------------------
    query_embedding,   \* argument: the query vector
    all_embeddings,    \* argument: the candidate pool (list of ServiceEmbedding)
    top_k,             \* argument: int
    exclude_ids,       \* argument: None or a list of service ids
    simPc,             \* "ready" | "returned" | "raised"
    simResult,         \* the returned list of (ServiceEmbedding, score)
    \* ---- CoPurchasePatternMiner.mine_patterns ----------------------------
    HAS_MLXTEND,       \* module flag set by the import at load time
    min_support,       \* CoPurchasePatternMiner fields
    min_confidence,
    min_lift,
    store,             \* the data store: basket -> number of booking groups
    minePc,            \* "idle" | "fetching" | "returned" | "raised"
    event_type,        \* argument of the call in progress / last call
    transactions,      \* the fetched rows
    aprioriCalls,      \* how many times apriori() was invoked
    patterns,          \* the returned list of CoPurchaseRule
    \* ---- EventDetector.detect_events -------------------------------------
    recent_searches,   \* argument: list of search strings (each a list of words)
    viewed_categories, \* argument: list of category names
    booked_categories, \* argument: list of category names
    detPc,             \* "ready" | "returned"
    detected,          \* the returned list of DetectedEvent
    confidenceOf,      \* per archetype: the local confidence before the clamp
    \* ---- MLOrchestrator.run_daily_jobs -----------------------------------
    orchPc,            \* per invocation: "idle" | "fetching" | "done" | "raised"
    orchPatterns,      \* per invocation: the patterns mine_patterns returned
    ruleSink,          \* the rules held by the external rule sink
    mineCalls,         \* per invocation: the calls of mine_patterns it made
    fetchCalls,        \* per invocation: the calls of _fetch_transactions made for it
    \* ---- EmbeddingService construction and generate_embedding ------------
    HAS_TRANSFORMERS,  \* module flag set by the import at load time
    embInit,           \* "new" | "constructed"
    model,             \* self.model: NoModel or the loaded model
    embeddings_cache,  \* self.embeddings_cache: a set of [text, vector] entries
    loadCalls,         \* how many times SentenceTransformer(...) was called
    loadFailed,        \* whether that call raised
    hashOf,            \* hash() of each text in this process
    rng,               \* the global np.random state: [seed, pos]
    callPc,            \* per thread: "idle" | "seeded"
    callText,          \* per thread: the text of the call in progress
    embCalls,          \* number of generate_embedding calls started
    embHistory         \* the (text, vector) pairs returned so far

simVars == <<query_embedding, all_embeddings, top_k, exclude_ids, simPc, simResult>>
mineVars == <<HAS_MLXTEND, min_support, min_confidence, min_lift, store, minePc,
              event_type, transactions, aprioriCalls, patterns>>
detVars == <<recent_searches, viewed_categories, booked_categories, detPc, detected,
             confidenceOf>>
orchVars == <<orchPc, orchPatterns, ruleSink, mineCalls, fetchCalls>>
embVars == <<HAS_TRANSFORMERS, embInit, model, embeddings_cache, loadCalls, loadFailed,
             hashOf, rng, callPc, callText, embCalls, embHistory>>
vars == <<simVars, mineVars, detVars, orchVars, embVars>>

None == "None"

(***************************************************************************)
(* Bounds                                                                  *)
(***************************************************************************)
MaxPool == 3        \* longest candidate pool
MaxTopK == 5        \* largest top_k
MaxTx == 11         \* most booking groups in the store
MaxSearches == 2    \* most recent searches
MaxViewed == 3      \* most viewed categories
MaxBooked == 2      \* most booked categories
MaxScenarioTx == 15 \* most booking groups in the store of scenario C
MaxJobs == 2        \* most invocations of run_daily_jobs
MaxThreads == 2     \* most threads calling generate_embedding
MaxCalls == 3       \* most generate_embedding calls

ServiceIds == {"s1", "s2"}
Vectors == {<<1, 0>>, <<1, 1>>, <<-1, 0>>}
QueryVectors == {<<1, 0>>, <<1, 1>>, <<0, 0>>}
ExcludeLists == {<<>>, <<"s1">>, <<"s2">>, <<"s1", "s2">>}

(***************************************************************************)
(* Generic helpers                                                         *)
(***************************************************************************)
SeqsUpTo(S, n) == UNION {[1..k -> S] : k \in 0..n}

Range(s) == {s[i] : i \in DOMAIN s}

Min2(a, b) == IF a <= b THEN a ELSE b

Max2(a, b) == IF a >= b THEN a ELSE b

\* s[:k - 1]
SliceTo_OffByOne(s, k) ==
    IF k >= 1 THEN SubSeq(s, 1, Min2(k - 1, Len(s)))
    ELSE SubSeq(s, 1, Max2(Len(s) + k - 1, 0))

\* Python slice s[:k]
SliceTo(s, k) ==
    IF k >= 0 THEN SubSeq(s, 1, Min2(k, Len(s)))
    ELSE SubSeq(s, 1, Max2(Len(s) + k, 0))

\* s[::-1]
Reverse(s) == [i \in 1..Len(s) |-> s[Len(s) + 1 - i]]

(***************************************************************************)
(* Exact rationals <<n, d>>, d > 0                                         *)
(***************************************************************************)
RatLeq(a, b) == a[1] * b[2] <= b[1] * a[2]
RatLt(a, b) == a[1] * b[2] < b[1] * a[2]
RatEq(a, b) == a[1] * b[2] = b[1] * a[2]

(***************************************************************************)
(* find_similar_services                                                   *)
(***************************************************************************)
Dot(u, v) == u[1] * v[1] + u[2] * v[2]

\* sklearn cosine_similarity of one row against one row: both rows are
\* L2-normalised (a zero row is left as it is), then multiplied.
cosine_similarity(q, v) ==
    LET d == Dot(q, v)
        nn == Dot(q, q) * Dot(v, v)
    IN IF nn = 0 THEN <<0, 1>>
       ELSE <<(IF d < 0 THEN -1 ELSE 1) * d * d, nn>>

\* Optional[List[str]]: None is <<>>, the list l is <<l>>
NoList == <<>>
SomeList(l) == <<l>>

\* exclude_ids = exclude_ids or []
ExcludeOrEmpty(ex) == IF ex = NoList THEN <<>> ELSE ex[1]

\* the filter condition dropped
NotExcluded_Always(e, ex) == TRUE

\* e.service_id not in exclude_ids
NotExcluded(e, ex) == e.service_id \notin Range(ex)

\* candidates = [e for e in all_embeddings if e.service_id not in exclude_ids]
\* A candidate object is referred to by its position in the pool.
RECURSIVE KeptFrom(_, _, _)
KeptFrom(pool, ex, i) ==
    IF i > Len(pool) THEN <<>>
    ELSE (IF NotExcluded(pool[i], ex) THEN <<i>> ELSE <<>>) \o KeptFrom(pool, ex, i + 1)

Candidates(pool, ex) == KeptFrom(pool, ExcludeOrEmpty(ex), 1)

\* the empty-pool guard dropped
NoCandidates_Never(cands) == FALSE

\* if not candidates
NoCandidates(cands) == cands = <<>>

\* similarities = cosine_similarity(query.reshape(1, -1), stacked)[0]
Similarities(q, pool, cands) ==
    [i \in 1..Len(cands) |-> cosine_similarity(q, pool[cands[i]].embedding)]

\* np.argsort(similarities): default kind is an introsort that is not
\* stable, so every index permutation that orders the values ascending is a
\* possible outcome.
IsAscending(sims, p) == \A i \in 1..(Len(p) - 1) : RatLeq(sims[p[i]], sims[p[i + 1]])

Argsort(sims) ==
    {p \in [1..Len(sims) -> 1..Len(sims)] :
        /\ \A i, j \in 1..Len(sims) : i # j => p[i] # p[j]
        /\ IsAscending(sims, p)}

\* np.argsort(similarities)[:top_k]
TopIndices_NoReverse(order, k) == SliceTo(order, k)

\* np.argsort(similarities)[:top_k][::-1]
TopIndices_SliceFirst(order, k) == Reverse(SliceTo(order, k))

\* top_indices = np.argsort(similarities)[::-1][:top_k]
TopIndices(order, k) == SliceTo(Reverse(order), k)

\* [(candidates[i], float(similarities[i])) for i in top_indices]
ResultList(pool, cands, sims, idx) ==
    [j \in 1..Len(idx) |->
        [cand |-> pool[cands[idx[j]]], pos |-> cands[idx[j]], score |-> sims[idx[j]]]]

\* the caller's list written over with the default
CallerExcludeIds_Defaulted(ex) == SomeList(ExcludeOrEmpty(ex))

\* exclude_ids = exclude_ids or [] binds the local name only: what the
\* caller passed (None or a list) is as it was
CallerExcludeIds(ex) == ex

InitSimInputs ==
    /\ query_embedding \in QueryVectors
    /\ all_embeddings \in SeqsUpTo([service_id : ServiceIds, embedding : Vectors], MaxPool)
    /\ top_k \in -1..MaxTopK
    /\ exclude_ids \in {NoList} \cup {SomeList(l) : l \in ExcludeLists}
    /\ simPc = "ready"
    /\ simResult = <<>>

find_similar_services ==
    /\ simPc = "ready"
    /\ LET cands == Candidates(all_embeddings, exclude_ids) IN
        IF NoCandidates(cands)
        THEN /\ simResult' = <<>>
             /\ simPc' = "returned"
        ELSE IF Len(cands) = 0
        THEN \* np.stack([]) raises ValueError
             /\ simResult' = <<>>
             /\ simPc' = "raised"
        ELSE LET sims == Similarities(query_embedding, all_embeddings, cands) IN
             \E order \in Argsort(sims) :
                /\ simResult' = ResultList(all_embeddings, cands, sims, TopIndices(order, top_k))
                /\ simPc' = "returned"
    /\ exclude_ids' = CallerExcludeIds(exclude_ids)
    /\ UNCHANGED <<query_embedding, all_embeddings, top_k>>
    /\ UNCHANGED <<mineVars, detVars, orchVars, embVars>>

(***************************************************************************)
(* mine_patterns                                                           *)
(***************************************************************************)
Categories == {"catering", "venue", "photography", "florist"}

\* The baskets a booking group can have: every row of _fetch_transactions
\* holds at least two distinct categories (HAVING COUNT(DISTINCT ...) >= 2).
Baskets == {{"catering", "venue"}, {"photography", "florist"},
            {"catering", "photography"}, {"catering", "venue", "photography"}}

SupportThresholds == {<<1, 100>>, <<3, 5>>}
ConfidenceThresholds == {<<1, 10>>, <<4, 5>>}
LiftThresholds == {<<1, 1>>, <<3, 2>>}
EventTypes == {None, "wedding"}

\* float values that are not rationals: n/0 stands for inf, 0/0 for NaN
Inf == <<1, 0>>
NaN == <<0, 0>>

RECURSIVE SumOver(_, _)
SumOver(f, S) ==
    IF S = {} THEN 0
    ELSE LET x == CHOOSE y \in S : TRUE IN f[x] + SumOver(f, S \ {x})

\* len(transactions)
NumTransactions(tx) == SumOver(tx, DOMAIN tx)

\* number of transactions that contain every item of the itemset
Count(tx, itemset) == SumOver(tx, {b \in DOMAIN tx : itemset \subseteq b})

\* te.columns_: the categories that occur in some transaction
Columns(tx) == UNION {b \in DOMAIN tx : tx[b] > 0}

\* mlxtend apriori(df, min_support, use_colnames=True): every non-empty
\* itemset whose support (count / rows) is >= min_support
apriori(tx, minsup) ==
    {s \in SUBSET Columns(tx) :
        s # {} /\ RatLeq(minsup, <<Count(tx, s), NumTransactions(tx)>>)}

\* the metrics mlxtend computes for antecedent A and consequent C
Support(tx, A, C) == <<Count(tx, A \cup C), NumTransactions(tx)>>

\* the joint count divided by the consequent's count
Confidence_OverConsequent(tx, A, C) == <<Count(tx, A \cup C), Count(tx, C)>>

Confidence(tx, A, C) == <<Count(tx, A \cup C), Count(tx, A)>>

Lift(tx, A, C) ==
    <<Count(tx, A \cup C) * NumTransactions(tx), Count(tx, A) * Count(tx, C)>>

\* conviction_helper: inf where confidence is 1, else
\* (1 - support(C)) / (1 - confidence)
Conviction(tx, A, C) ==
    IF Count(tx, A \cup C) = Count(tx, A) THEN Inf
    ELSE <<(NumTransactions(tx) - Count(tx, C)) * Count(tx, A),
           NumTransactions(tx) * (Count(tx, A) - Count(tx, A \cup C))>>

\* the antecedent not removed from the consequent
Consequent_Whole(k, a) == k

\* the consequent of a rule drawn from itemset k with antecedent a
Consequent(k, a) == k \ a

\* association_rules(frequent_itemsets, metric="lift", min_threshold):
\* every split of a frequent itemset of two or more items into a non-empty
\* antecedent and the rest, kept when its lift is >= min_threshold
association_rules(tx, freq, minlift) ==
    {r \in UNION {{[antecedents |-> a, consequents |-> Consequent(k, a)] :
                        a \in (SUBSET k) \ {{}, k}} : k \in freq} :
        RatLeq(minlift, Lift(tx, r.antecedents, r.consequents))}

\* the confidence filter dropped
ConfidenceFilter_None(tx, rules, minconf) == rules

\* rules = rules[rules['confidence'] >= self.min_confidence]
ConfidenceFilter(tx, rules, minconf) ==
    {r \in rules : RatLeq(minconf, Confidence(tx, r.antecedents, r.consequents))}

\* pd.notna(x)
notna(x) == x # NaN

\* float(row['conviction']) if pd.notna(row['conviction']) else 0.0
EmittedConviction(c) == IF notna(c) THEN c ELSE <<0, 1>>

\* event_context left at its default None
CoPurchaseRule_NoContext(tx, r, et) ==
    [antecedent_categories |-> r.antecedents,
     consequent_categories |-> r.consequents,
     support |-> Support(tx, r.antecedents, r.consequents),
     confidence |-> Confidence(tx, r.antecedents, r.consequents),
     lift |-> Lift(tx, r.antecedents, r.consequents),
     conviction |-> EmittedConviction(Conviction(tx, r.antecedents, r.consequents)),
     event_context |-> None]

\* CoPurchaseRule(...) for one row
CoPurchaseRule(tx, r, et) ==
    [antecedent_categories |-> r.antecedents,
     consequent_categories |-> r.consequents,
     support |-> Support(tx, r.antecedents, r.consequents),
     confidence |-> Confidence(tx, r.antecedents, r.consequents),
     lift |-> Lift(tx, r.antecedents, r.consequents),
     conviction |-> EmittedConviction(Conviction(tx, r.antecedents, r.consequents)),
     event_context |-> et]

\* the fewest transactions mined
MinTransactions == 10

\* len(transactions) <= 10
TooFewTransactions_OffByOne(tx) == NumTransactions(tx) <= MinTransactions

\* len(transactions) < 10
TooFewTransactions(tx) == NumTransactions(tx) < MinTransactions

EmptyStore == [b \in Baskets |-> 0]

InitMineInputs ==
    /\ HAS_MLXTEND \in BOOLEAN
    /\ min_support \in SupportThresholds
    /\ min_confidence \in ConfidenceThresholds
    /\ min_lift \in LiftThresholds
    /\ store \in {f \in [Baskets -> 0..MaxTx] : SumOver(f, Baskets) <= MaxTx}
    /\ minePc = "idle"
    /\ event_type = None
    /\ transactions = EmptyStore
    /\ aprioriCalls = 0
    /\ patterns = {}

\* the baskets of scenario C
ScenarioBaskets == {{"catering", "venue"}, {"catering", "venue", "photography"},
                    {"catering", "photography"}, {"venue", "photography"},
                    {"photography", "florist"}}

\* CoPurchasePatternMiner() with its default thresholds and a store of
\* MinTransactions..MaxScenarioTx booking groups
InitMineDefaults ==
    /\ HAS_MLXTEND \in BOOLEAN
    /\ min_support = <<1, 100>>
    /\ min_confidence = <<1, 10>>
    /\ min_lift = <<1, 1>>
    /\ store \in {f \in [ScenarioBaskets -> 0..MaxScenarioTx] :
                    SumOver(f, ScenarioBaskets) \in MinTransactions..MaxScenarioTx}
    /\ minePc = "idle"
    /\ event_type = None
    /\ transactions = EmptyStore
    /\ aprioriCalls = 0
    /\ patterns = {}

mineConfig == <<HAS_MLXTEND, min_support, min_confidence, min_lift, store>>

\* only the rows of bookings made for the given event type
FetchTransactions_Filtered(db, et) ==
    IF et = None THEN db ELSE [b \in DOMAIN db |-> IF "venue" \in b THEN db[b] ELSE 0]

\* _fetch_transactions(db_pool, event_type, time_window_days): the rows of
\* the query, which has no condition on event_type
FetchTransactions(db, et) == db

\* mine_patterns from the call up to the await of _fetch_transactions
mine_patterns(et) ==
    /\ minePc = "idle"
    /\ event_type' = et
    /\ IF ~HAS_MLXTEND
       THEN /\ patterns' = {}
            /\ minePc' = "returned"
       ELSE /\ minePc' = "fetching"
            /\ UNCHANGED patterns
    /\ UNCHANGED <<mineConfig, transactions, aprioriCalls>>
    /\ UNCHANGED <<simVars, detVars, orchVars, embVars>>

\* _fetch_transactions returns the rows; mine_patterns runs to its return
mine_patterns_resume ==
    /\ minePc = "fetching"
    /\ minePc' = "returned"
    /\ LET rows == FetchTransactions(store, event_type) IN
        /\ transactions' = rows
        /\ IF TooFewTransactions(rows)
           THEN /\ patterns' = {}
                /\ UNCHANGED aprioriCalls
           ELSE /\ aprioriCalls' = aprioriCalls + 1
                /\ LET frequent_itemsets == apriori(rows, min_support) IN
                    IF frequent_itemsets = {}
                    THEN patterns' = {}
                    ELSE LET rules == ConfidenceFilter(rows,
                                         association_rules(rows, frequent_itemsets, min_lift),
                                         min_confidence)
                         IN patterns' = {CoPurchaseRule(rows, r, event_type) : r \in rules}
    /\ UNCHANGED <<mineConfig, event_type>>
    /\ UNCHANGED <<simVars, detVars, orchVars, embVars>>

\* the data store fails: the exception leaves mine_patterns
mine_patterns_fetch_raises ==
    /\ minePc = "fetching"
    /\ minePc' = "raised"
    /\ UNCHANGED <<mineConfig, event_type, transactions, aprioriCalls, patterns>>
    /\ UNCHANGED <<simVars, detVars, orchVars, embVars>>

(***************************************************************************)
(* detect_events                                                           *)
(*                                                                         *)
(* A string is the list of its space-separated words.  A confidence is the *)
(* exact sum in hundredths (0.3 is 30, 1.0 is 100) together with the       *)
(* rounding error of the double the code computes for it: -1, 0 or 1 unit  *)
(* in the last place against the double nearest to the exact sum.          *)
(***************************************************************************)
\* the search strings and categories a caller passes
SearchStrings == {<<"Weddings">>, <<"bridal">>, <<"baby">>, <<"shower">>,
                  <<"bride", "groom", "vows">>}
ViewedCategories == {"venue", "catering"}
BookedCategories == {"legal", "catering"}

\* the archetypes in the iteration order of the EVENT_PATTERNS dict
ArchetypeOrder == <<"wedding", "relocation", "childbirth", "business_launch">>

EVENT_PATTERNS ==
    [wedding |->
        [keywords |-> << <<"wedding">>, <<"bride">>, <<"groom">>, <<"reception">>,
                         <<"engagement">>, <<"bridal">>, <<"ceremony">>, <<"vows">>,
                         <<"honeymoon">>, <<"registry">> >>,
         category_signals |-> <<"venue", "catering", "photography", "decoration",
                                "florist", "cake", "makeup">>,
         min_category_matches |-> 2,
         confidence_boost_per_match |-> 15],
     relocation |->
        [keywords |-> << <<"moving">>, <<"relocation">>, <<"new", "home">>,
                         <<"apartment">>, <<"movers">>, <<"packing">> >>,
         category_signals |-> <<"moving", "cleaning", "painting", "electrical", "plumbing">>,
         min_category_matches |-> 2,
         confidence_boost_per_match |-> 12],
     childbirth |->
        [keywords |-> << <<"baby">>, <<"pregnancy">>, <<"newborn">>, <<"maternity">>,
                         <<"nursery">>, <<"baby", "shower">> >>,
         category_signals |-> <<"doula", "photographer", "catering", "decoration">>,
         min_category_matches |-> 1,
         confidence_boost_per_match |-> 20],
     business_launch |->
        [keywords |-> << <<"business">>, <<"company">>, <<"startup">>, <<"office">>,
                         <<"registration">>, <<"branding">> >>,
         category_signals |-> <<"business_registration", "legal", "branding", "webdev">>,
         min_category_matches |-> 2,
         confidence_boost_per_match |-> 15]]

\* str.lower() of one word
LowerWord(w) == IF w = "Weddings" THEN "weddings" ELSE w

\* the (lower-case) words that have a given word as a proper prefix / suffix
ProperPrefixes == {<<"weddings", "wedding">>}
ProperSuffixes == {}

StartsWith(w, k) == w = k \/ <<w, k>> \in ProperPrefixes
EndsWith(w, k) == w = k \/ <<w, k>> \in ProperSuffixes
ContainsWord(w, k) == StartsWith(w, k) \/ EndsWith(w, k)

\* " ".join(recent_searches)
RECURSIVE JoinWords(_)
JoinWords(strings) ==
    IF strings = <<>> THEN <<>> ELSE Head(strings) \o JoinWords(Tail(strings))

\* search_text = " ".join(recent_searches).lower()
SearchText(searches) ==
    LET joined == JoinWords(searches) IN [i \in 1..Len(joined) |-> LowerWord(joined[i])]

\* kw.lower() in search_text: a one-word keyword lies inside one word of the
\* text; a keyword of several words ends one word, fills the words between
\* and starts the last one
KeywordIn(kw, text) ==
    LET n == Len(kw) IN
    \E i \in 1..(Len(text) - n + 1) :
        IF n = 1 THEN ContainsWord(text[i], LowerWord(kw[1]))
        ELSE /\ EndsWith(text[i], LowerWord(kw[1]))
             /\ \A j \in 2..(n - 1) : text[i + j - 1] = LowerWord(kw[j])
             /\ StartsWith(text[i + n - 1], LowerWord(kw[n]))

\* sum(1 for kw in patterns['keywords'] if kw.lower() in search_text)
KeywordMatches(p, searches) ==
    LET search_text == SearchText(searches)
    IN Cardinality({i \in 1..Len(p.keywords) : KeywordIn(p.keywords[i], search_text)})

\* each distinct category counted once
CategoryMatches_Distinct(p, cats) ==
    Cardinality({c \in Range(cats) : c \in Range(p.category_signals)})

\* sum(1 for cat in cats if cat in patterns['category_signals'])
CategoryMatches(p, cats) ==
    Cardinality({i \in 1..Len(cats) : cats[i] \in Range(p.category_signals)})

\* one added 0.1 whatever the number of matches
KeywordScore_Flat(k) == 10

\* the cap dropped
KeywordScore_Uncapped(k) == k * 10

\* min(keyword_matches * 0.1, 0.3)
KeywordScore(k) == Min2(k * 10, 30)

\* keyword_matches, category_views and category_bookings of one archetype
Counts(p, searches, viewed, booked) ==
    [k |-> KeywordMatches(p, searches),
     v |-> CategoryMatches(p, viewed),
     b |-> CategoryMatches(p, booked)]

\* the confidence of one archetype before the clamp, from its counts n
RawConfidence(p, n) ==
    (IF n.k > 0 THEN KeywordScore(n.k) ELSE 0)
    + (IF n.v >= p.min_category_matches THEN n.v * p.confidence_boost_per_match ELSE 0)
    + (IF n.b > 0 THEN n.b * 25 ELSE 0)

\* The doubles of the sums in [0.3, 1.0] that are not the double nearest to
\* the exact sum, by <<keyword term, boost, counted views, bookings>> (all
\* in hundredths or counts; counted views is 0 when the views did not
\* contribute).  0.1 + 0.2 is 0.30000000000000004, one unit above 0.3;
\* 3 * 0.15 is 0.44999999999999996, one unit below 0.45.
FloatAbove == {<<0, 20, 3, 0>>, <<0, 20, 3, 1>>, <<10, 20, 1, 0>>, <<10, 20, 3, 0>>,
               <<10, 20, 3, 1>>, <<20, 20, 2, 0>>, <<20, 20, 2, 1>>, <<30, 20, 3, 0>>}
FloatBelow == {<<10, 12, 2, 0>>, <<10, 12, 3, 0>>, <<20, 12, 4, 0>>, <<20, 12, 4, 1>>,
               <<20, 12, 6, 0>>, <<30, 12, 3, 0>>, <<30, 12, 3, 1>>, <<30, 12, 5, 0>>,
               <<0, 15, 3, 0>>, <<0, 15, 6, 0>>, <<10, 15, 3, 0>>, <<10, 15, 3, 1>>,
               <<10, 15, 6, 0>>, <<20, 15, 3, 0>>, <<20, 15, 3, 1>>, <<30, 15, 4, 0>>}

\* the rounding error of the float sum confidence += ... += ... of one
\* archetype
FloatError(p, n) ==
    LET terms == <<IF n.k > 0 THEN KeywordScore(n.k) ELSE 0,
                   p.confidence_boost_per_match,
                   IF n.v >= p.min_category_matches THEN n.v ELSE 0,
                   n.b>>
    IN IF terms \in FloatAbove THEN 1 ELSE IF terms \in FloatBelow THEN -1 ELSE 0

\* the bookings descriptor appended first
TriggerSignals_BookingsFirst(p, n) ==
    (IF n.b > 0 THEN <<[kind |-> "category_bookings", count |-> n.b]>> ELSE <<>>)
    \o (IF n.k > 0 THEN <<[kind |-> "keyword_matches", count |-> n.k]>> ELSE <<>>)
    \o (IF n.v >= p.min_category_matches
        THEN <<[kind |-> "category_views", count |-> n.v]>> ELSE <<>>)

\* the trigger_signals of one archetype, in the order they are appended
TriggerSignals(p, n) ==
    (IF n.k > 0 THEN <<[kind |-> "keyword_matches", count |-> n.k]>> ELSE <<>>)
    \o (IF n.v >= p.min_category_matches
        THEN <<[kind |-> "category_views", count |-> n.v]>> ELSE <<>>)
    \o (IF n.b > 0 THEN <<[kind |-> "category_bookings", count |-> n.b]>> ELSE <<>>)

\* if confidence > 0.3
Emitted_Strict(c) == c > 30

\* if confidence >= 0.3
Emitted(c) == c >= 30

\* the clamp dropped
Clamp_None(c) == c

\* min(confidence, 1.0)
Clamp(c) == Min2(c, 100)

\* the rounding error left by min(confidence, 1.0): 1.0 itself is exact
ClampError(c, err) == IF c > 100 \/ (c = 100 /\ err > 0) THEN 0 ELSE err

\* DetectedEvent(...); detected_at (the wall clock) is left out.  The
\* float held by the confidence field is given by confidence and rounding.
DetectedEvent(name, p, n) ==
    [event_type |-> name,
     confidence |-> Clamp(RawConfidence(p, n)),
     rounding |-> ClampError(RawConfidence(p, n), FloatError(p, n)),
     trigger_signals |-> TriggerSignals(p, n)]

\* the counts of every archetype, in the iteration order of the loop
LoopCounts(searches, viewed, booked) ==
    <<Counts(EVENT_PATTERNS[ArchetypeOrder[1]], searches, viewed, booked),
      Counts(EVENT_PATTERNS[ArchetypeOrder[2]], searches, viewed, booked),
      Counts(EVENT_PATTERNS[ArchetypeOrder[3]], searches, viewed, booked),
      Counts(EVENT_PATTERNS[ArchetypeOrder[4]], searches, viewed, booked)>>

\* the loop over EVENT_PATTERNS.items(): the events appended, archetype by
\* archetype from position i on
RECURSIVE DetectedFrom(_, _)
DetectedFrom(i, counts) ==
    IF i > Len(ArchetypeOrder) THEN <<>>
    ELSE LET name == ArchetypeOrder[i]
             p == EVENT_PATTERNS[name]
         IN (IF Emitted(RawConfidence(p, counts[i]))
             THEN <<DetectedEvent(name, p, counts[i])>>
             ELSE <<>>)
            \o DetectedFrom(i + 1, counts)

\* x.confidence >= y.confidence on the floats the two events hold
ConfidenceGeq(x, y) ==
    \/ x.confidence > y.confidence
    \/ x.confidence = y.confidence /\ x.rounding >= y.rounding

\* insert e after every entry whose confidence is >= e's (stable, descending)
RECURSIVE InsertDescending(_, _)
InsertDescending(sorted, e) ==
    IF sorted = <<>> THEN <<e>>
    ELSE IF ConfidenceGeq(Head(sorted), e)
         THEN <<Head(sorted)>> \o InsertDescending(Tail(sorted), e)
         ELSE <<e>> \o sorted

RECURSIVE SortFrom(_, _, _)
SortFrom(events, i, acc) ==
    IF i > Len(events) THEN acc
    ELSE SortFrom(events, i + 1, InsertDescending(acc, events[i]))

\* the sort key inverted: ascending confidence
SortByConfidence_Ascending(events) == Reverse(SortFrom(events, 1, <<>>))

\* equal keys come out in the reverse of the order they went in
SortByConfidence_TiesReversed(events) == SortFrom(Reverse(events), 1, <<>>)

\* detected.sort(key=lambda x: x.confidence, reverse=True): a stable sort
SortByConfidence(events) == SortFrom(events, 1, <<>>)

\* the value the local confidence has, archetype by archetype, when the
\* loop reaches if confidence >= 0.3
ConfidenceBeforeClamp(counts) ==
    LET at == [i \in 1..Len(ArchetypeOrder) |->
                  RawConfidence(EVENT_PATTERNS[ArchetypeOrder[i]], counts[i])]
    IN [a \in Range(ArchetypeOrder) |->
           at[CHOOSE i \in 1..Len(ArchetypeOrder) : ArchetypeOrder[i] = a]]

InitDetInputs ==
    /\ recent_searches \in SeqsUpTo(SearchStrings, MaxSearches)
    /\ viewed_categories \in SeqsUpTo(ViewedCategories, MaxViewed)
    /\ booked_categories \in SeqsUpTo(BookedCategories, MaxBooked)
    /\ detPc = "ready"
    /\ detected = <<>>
    /\ confidenceOf = [a \in Range(ArchetypeOrder) |-> 0]

detect_events ==
    /\ detPc = "ready"
    /\ LET counts == LoopCounts(recent_searches, viewed_categories, booked_categories)
       IN /\ detected' = SortByConfidence(DetectedFrom(1, counts))
          /\ confidenceOf' = ConfidenceBeforeClamp(counts)
    /\ detPc' = "returned"
    /\ UNCHANGED <<recent_searches, viewed_categories, booked_categories>>
    /\ UNCHANGED <<simVars, mineVars, orchVars, embVars>>

(***************************************************************************)
(* EmbeddingService: construction and generate_embedding                   *)
(*                                                                         *)
(* A vector is named by what determines it: the encoder's output by the    *)
(* text, the fallback's output by the seed of the global generator and     *)
(* the number of values drawn from it since it was seeded.                 *)
(***************************************************************************)
Threads == 1..MaxThreads
Texts == {"catering", "venue"}
NoText == ""

\* hash(text): a 64-bit value [hi, lo] = hi * 2^32 + lo; equal texts have
\* equal hashes within one process
Hashes == {[hi |-> 0, lo |-> 7], [hi |-> -1, lo |-> 7], [hi |-> 0, lo |-> 9]}

\* the hash functions of a process: distinct texts get distinct hashes here
\* (their low words may still coincide)
HashFunctions == {f \in [Texts -> Hashes] : \A x, y \in Texts : x # y => f[x] # f[y]}

\* hash(text) % (2**32)
Seed(h) == h.lo

\* self.model: None, or a loaded model with its output dimension
NoModel == <<>>
LoadedModel(d) == <<d>>
ModelDims == {384, 768}

\* dim: int = 384
FallbackDim == 384

\* the generator before any np.random.seed call
Unseeded == [seed |-> -1, pos |-> 0]

\* a model object left in place by a failed load
FailedLoadModel_Kept == LoadedModel(FallbackDim)

\* except Exception: self.model = None
FailedLoadModel == NoModel

\* the generator is left as it was
Reseed_Skipped(g, s) == g

\* np.random.seed(s)
Reseed(g, s) == [seed |-> s, pos |-> 0]

\* np.random.randn(dim): the values drawn and the generator afterwards
Randn(g, dim) == [strategy |-> "fallback", text |-> NoText, seed |-> g.seed,
                  pos |-> g.pos, dim |-> dim]
AfterRandn(g, dim) == [g EXCEPT !.pos = g.pos + dim]

\* self.model.encode(text, convert_to_numpy=True)
Encode(m, text) == [strategy |-> "model", text |-> text, seed |-> 0, pos |-> 0, dim |-> m[1]]

\* if self.model is not None
UsesModel(m) == m # NoModel

InitEmbInputs ==
    /\ HAS_TRANSFORMERS \in BOOLEAN
    /\ embInit = "new"
    /\ model = NoModel
    /\ embeddings_cache = {}
    /\ loadCalls = 0
    /\ loadFailed = FALSE
    /\ hashOf \in HashFunctions
    /\ rng = Unseeded
    /\ callPc = [t \in Threads |-> "idle"]
    /\ callText = [t \in Threads |-> NoText]
    /\ embCalls = 0
    /\ embHistory = {}

EmbIdle ==
    /\ HAS_TRANSFORMERS = FALSE
    /\ embInit = "new"
    /\ model = NoModel
    /\ embeddings_cache = {}
    /\ loadCalls = 0
    /\ loadFailed = FALSE
    /\ hashOf = (CHOOSE f \in HashFunctions : TRUE)
    /\ rng = Unseeded
    /\ callPc = [t \in Threads |-> "idle"]
    /\ callText = [t \in Threads |-> NoText]
    /\ embCalls = MaxCalls
    /\ embHistory = {}

\* the returned vector is kept under its text
CacheAfterEmbedding_Stored(cache, text, vector) ==
    cache \cup {[text |-> text, vector |-> vector]}

\* self.embeddings_cache once generate_embedding has returned vector for
\* text: neither generate_embedding nor _fallback_embedding writes to it
CacheAfterEmbedding(cache, text, vector) == cache

\* EmbeddingService.__init__ with _initialize_model: the model is loaded,
\* or the load raises and is caught, or sentence-transformers is absent
EmbeddingService_init ==
    /\ embInit = "new"
    /\ embInit' = "constructed"
    /\ embeddings_cache' = {}
    /\ IF HAS_TRANSFORMERS
       THEN /\ loadCalls' = loadCalls + 1
            /\ \/ /\ \E d \in ModelDims : model' = LoadedModel(d)
                  /\ loadFailed' = FALSE
               \/ /\ model' = FailedLoadModel
                  /\ loadFailed' = TRUE
       ELSE /\ model' = NoModel
            /\ UNCHANGED <<loadCalls, loadFailed>>
    /\ UNCHANGED <<HAS_TRANSFORMERS, hashOf, rng, callPc, callText, embCalls, embHistory>>
    /\ UNCHANGED <<simVars, mineVars, detVars, orchVars>>

\* generate_embedding with a loaded model: encode and return
generate_embedding_encode(t, text) ==
    /\ embInit = "constructed"
    /\ callPc[t] = "idle"
    /\ embCalls < MaxCalls
    /\ UsesModel(model)
    /\ embCalls' = embCalls + 1
    /\ embHistory' = embHistory \cup {[text |-> text, vector |-> Encode(model, text)]}
    /\ embeddings_cache' = CacheAfterEmbedding(embeddings_cache, text, Encode(model, text))
    /\ UNCHANGED <<HAS_TRANSFORMERS, embInit, model, loadCalls, loadFailed, hashOf, rng,
                   callPc, callText>>
    /\ UNCHANGED <<simVars, mineVars, detVars, orchVars>>

\* generate_embedding without a model, first statement of
\* _fallback_embedding: np.random.seed(hash(text) % (2**32))
fallback_embedding_seed(t, text) ==
    /\ embInit = "constructed"
    /\ callPc[t] = "idle"
    /\ embCalls < MaxCalls
    /\ ~UsesModel(model)
    /\ embCalls' = embCalls + 1
    /\ rng' = Reseed(rng, Seed(hashOf[text]))
    /\ callPc' = [callPc EXCEPT ![t] = "seeded"]
    /\ callText' = [callText EXCEPT ![t] = text]
    /\ UNCHANGED <<HAS_TRANSFORMERS, embInit, model, embeddings_cache, loadCalls, loadFailed,
                   hashOf, embHistory>>
    /\ UNCHANGED <<simVars, mineVars, detVars, orchVars>>

\* second statement of _fallback_embedding:
\* return np.random.randn(dim).astype(np.float32)
fallback_embedding_randn(t) ==
    /\ callPc[t] = "seeded"
    /\ embHistory' = embHistory \cup {[text |-> callText[t], vector |-> Randn(rng, FallbackDim)]}
    /\ embeddings_cache' = CacheAfterEmbedding(embeddings_cache, callText[t],
                                                Randn(rng, FallbackDim))
    /\ rng' = AfterRandn(rng, FallbackDim)
    /\ callPc' = [callPc EXCEPT ![t] = "idle"]
    /\ callText' = [callText EXCEPT ![t] = NoText]
    /\ UNCHANGED <<HAS_TRANSFORMERS, embInit, model, loadCalls, loadFailed, hashOf, embCalls>>
    /\ UNCHANGED <<simVars, mineVars, detVars, orchVars>>

\* the calls of thread t
EmbeddingCalls(t) ==
    \/ \E text \in Texts : generate_embedding_encode(t, text)
    \/ \E text \in Texts : fallback_embedding_seed(t, text)
    \/ fallback_embedding_randn(t)

(***************************************************************************)
(* MLOrchestrator.run_daily_jobs                                           *)
(***************************************************************************)
Jobs == 1..MaxJobs

\* what mine_patterns returns once _fetch_transactions has returned tx
MinedPatterns(tx, minsup, minconf, minlift, et) ==
    IF TooFewTransactions(tx) THEN {}
    ELSE LET frequent_itemsets == apriori(tx, minsup) IN
         IF frequent_itemsets = {} THEN {}
         ELSE {CoPurchaseRule(tx, r, et) :
                  r \in ConfidenceFilter(tx, association_rules(tx, frequent_itemsets, minlift),
                                         minconf)}

\* MLOrchestrator.__init__ builds CoPurchasePatternMiner() with its defaults
InitOrchInputs ==
    /\ HAS_MLXTEND \in BOOLEAN
    /\ min_support = <<1, 100>>
    /\ min_confidence = <<1, 10>>
    /\ min_lift = <<1, 1>>
    /\ store \in {f \in [Baskets -> 0..MaxTx] : SumOver(f, Baskets) <= MaxTx}
    /\ minePc = "returned"
    /\ event_type = None
    /\ transactions = EmptyStore
    /\ aprioriCalls = 0
    /\ patterns = {}
    /\ orchPc = [j \in Jobs |-> "idle"]
    /\ orchPatterns = [j \in Jobs |-> {}]
    /\ ruleSink = {}
    /\ mineCalls = [j \in Jobs |-> 0]
    /\ fetchCalls = [j \in Jobs |-> 0]

\* the invocation starts over after a failed fetch
AfterFetchFailure_Retry == "idle"

\* where an invocation is once the fetch has raised: run_daily_jobs has no
\* except clause and no loop, the exception ends the invocation
AfterFetchFailure == "raised"

\* run_daily_jobs from the call up to the await inside mine_patterns;
\* without mlxtend mine_patterns returns [] at once and the job completes
run_daily_jobs(j) ==
    /\ orchPc[j] = "idle"
    /\ mineCalls' = [mineCalls EXCEPT ![j] = @ + 1]
    /\ IF ~HAS_MLXTEND
       THEN /\ orchPc' = [orchPc EXCEPT ![j] = "done"]
            /\ UNCHANGED fetchCalls
       ELSE /\ orchPc' = [orchPc EXCEPT ![j] = "fetching"]
            /\ fetchCalls' = [fetchCalls EXCEPT ![j] = @ + 1]
    /\ UNCHANGED <<orchPatterns, ruleSink>>
    /\ UNCHANGED <<simVars, mineVars, detVars, embVars>>

\* the fetch returns: mine_patterns returns its patterns, run_daily_jobs
\* logs their number and completes
run_daily_jobs_resume(j) ==
    /\ orchPc[j] = "fetching"
    /\ orchPatterns' = [orchPatterns EXCEPT
                           ![j] = MinedPatterns(FetchTransactions(store, None),
                                                min_support, min_confidence,
                                                min_lift, None)]
    /\ orchPc' = [orchPc EXCEPT ![j] = "done"]
    /\ UNCHANGED <<ruleSink, mineCalls, fetchCalls>>
    /\ UNCHANGED <<simVars, mineVars, detVars, embVars>>

\* the fetch raises: the exception leaves mine_patterns and run_daily_jobs
run_daily_jobs_fetch_raises(j) ==
    /\ orchPc[j] = "fetching"
    /\ orchPc' = [orchPc EXCEPT ![j] = AfterFetchFailure]
    /\ UNCHANGED <<orchPatterns, ruleSink, mineCalls, fetchCalls>>
    /\ UNCHANGED <<simVars, mineVars, detVars, embVars>>

(***************************************************************************)
(* Specifications                                                          *)
(***************************************************************************)
SimIdle ==
    /\ query_embedding = <<0, 0>>
    /\ all_embeddings = <<>>
    /\ top_k = 0
    /\ exclude_ids = NoList
    /\ simPc = "returned"
    /\ simResult = <<>>

MineIdle ==
    /\ HAS_MLXTEND = FALSE
    /\ min_support = <<1, 100>>
    /\ min_confidence = <<1, 10>>
    /\ min_lift = <<1, 1>>
    /\ store = EmptyStore
    /\ minePc = "returned"
    /\ event_type = None
    /\ transactions = EmptyStore
    /\ aprioriCalls = 0
    /\ patterns = {}

DetIdle ==
    /\ recent_searches = <<>>
    /\ viewed_categories = <<>>
    /\ booked_categories = <<>>
    /\ detPc = "returned"
    /\ detected = <<>>
    /\ confidenceOf = [a \in Range(ArchetypeOrder) |-> 0]

OrchIdle ==
    /\ orchPc = [j \in Jobs |-> "done"]
    /\ orchPatterns = [j \in Jobs |-> {}]
    /\ ruleSink = {}
    /\ mineCalls = [j \in Jobs |-> 0]
    /\ fetchCalls = [j \in Jobs |-> 0]

InitSim == InitSimInputs /\ MineIdle /\ DetIdle /\ OrchIdle /\ EmbIdle

NextSim == find_similar_services

SpecSim == InitSim /\ [][NextSim]_vars

InitMine == InitMineInputs /\ SimIdle /\ DetIdle /\ OrchIdle /\ EmbIdle

NextMine ==
    \/ \E et \in EventTypes : mine_patterns(et)
    \/ mine_patterns_resume
    \/ mine_patterns_fetch_raises

SpecMine == InitMine /\ [][NextMine]_vars

InitMineC == InitMineDefaults /\ SimIdle /\ DetIdle /\ OrchIdle /\ EmbIdle

SpecMineC == InitMineC /\ [][NextMine]_vars

InitDet == InitDetInputs /\ SimIdle /\ MineIdle /\ OrchIdle /\ EmbIdle

NextDet == detect_events

SpecDet == InitDet /\ [][NextDet]_vars

InitOrch == InitOrchInputs /\ SimIdle /\ DetIdle /\ EmbIdle

NextOrch ==
    \/ \E j \in Jobs : run_daily_jobs(j)
    \/ \E j \in Jobs : run_daily_jobs_resume(j)
    \/ \E j \in Jobs : run_daily_jobs_fetch_raises(j)

SpecOrch == InitOrch /\ [][NextOrch]_vars

InitEmb == InitEmbInputs /\ SimIdle /\ MineIdle /\ DetIdle /\ OrchIdle

\* one caller: each call runs to its return before the next starts
NextEmb ==
    \/ EmbeddingService_init
    \/ EmbeddingCalls(1)

SpecEmb == InitEmb /\ [][NextEmb]_vars

\* callers on several threads
NextEmbThreads ==
    \/ EmbeddingService_init
    \/ \E t \in Threads : EmbeddingCalls(t)

SpecEmbThreads == InitEmb /\ [][NextEmbThreads]_vars

\* One process serving queries: an EmbeddingService, an EventDetector and a
\* CoPurchasePatternMiner with default thresholds, each called with a few
\* fixed inputs, in any order.
InitQuery ==
    /\ query_embedding \in {<<1, 0>>, <<1, 1>>}
    /\ all_embeddings = <<[service_id |-> "s1", embedding |-> <<1, 0>>],
                          [service_id |-> "s2", embedding |-> <<1, 1>>]>>
    /\ top_k = 1
    /\ exclude_ids \in {NoList, SomeList(<<"s1">>)}
    /\ simPc = "ready"
    /\ simResult = <<>>
    /\ recent_searches \in {<<>>, << <<"Weddings">>, <<"bridal">> >>}
    /\ viewed_categories = <<"venue", "catering">>
    /\ booked_categories \in {<<>>, <<"catering">>}
    /\ detPc = "ready"
    /\ detected = <<>>
    /\ confidenceOf = [a \in Range(ArchetypeOrder) |-> 0]
    /\ HAS_MLXTEND \in BOOLEAN
    /\ min_support = <<1, 100>>
    /\ min_confidence = <<1, 10>>
    /\ min_lift = <<1, 1>>
    /\ store = [b \in Baskets |-> IF b = {"catering", "venue"} THEN MinTransactions ELSE 0]
    /\ minePc = "idle"
    /\ event_type = None
    /\ transactions = EmptyStore
    /\ aprioriCalls = 0
    /\ patterns = {}
    /\ InitEmbInputs
    /\ hashOf = (CHOOSE f \in HashFunctions : TRUE)
    /\ OrchIdle

NextQuery ==
    \/ EmbeddingService_init
    \/ EmbeddingCalls(1)
    \/ find_similar_services
    \/ detect_events
    \/ \E et \in EventTypes : mine_patterns(et)
    \/ mine_patterns_resume
    \/ mine_patterns_fetch_raises

SpecQuery == InitQuery /\ [][NextQuery]_vars

(***************************************************************************)
(* Properties of find_similar_services (checked under SpecSim)             *)
(***************************************************************************)
SimReturned == simPc = "returned"

ExcludedIds == IF exclude_ids = NoList THEN {} ELSE Range(exclude_ids[1])

\* pool positions whose service_id is not excluded
Eligible == {i \in 1..Len(all_embeddings) : all_embeddings[i].service_id \notin ExcludedIds}

ResultPositions == {simResult[j].pos : j \in 1..Len(simResult)}

\* C1: find_similar_services never returns a candidate whose service_id is
\* in the exclusion list.
C1_NoExcludedReturned ==
    SimReturned => \A j \in 1..Len(simResult) : simResult[j].cand.service_id \notin ExcludedIds

C1_Witness ==
    /\ SimReturned
    /\ Len(simResult) >= 1
    /\ \E i \in 1..Len(all_embeddings) : all_embeddings[i].service_id \in ExcludedIds

\* C2: the returned list is ordered by non-increasing similarity score.
C2_NonIncreasingScores ==
    SimReturned =>
        \A j \in 1..(Len(simResult) - 1) : RatLeq(simResult[j + 1].score, simResult[j].score)

C2_Witness ==
    /\ SimReturned
    /\ Len(simResult) >= 3
    /\ RatLt(simResult[2].score, simResult[1].score)
    /\ RatLt(simResult[3].score, simResult[2].score)

\* C3: candidates of equal similarity are returned in their original pool
\* order (the one earlier in the pool comes first in the result).
C3_TiesInPoolOrder ==
    SimReturned =>
        \A i, j \in 1..Len(simResult) :
            (i < j /\ RatEq(simResult[i].score, simResult[j].score))
                => simResult[i].pos < simResult[j].pos

\* C4: with top_k >= |P| the result holds every non-excluded candidate of
\* the pool exactly once.
C4_FullPoolWhenTopKLarge ==
    (SimReturned /\ top_k >= Len(all_embeddings)) =>
        /\ ResultPositions = Eligible
        /\ Len(simResult) = Cardinality(Eligible)

C4_Witness ==
    /\ SimReturned
    /\ Len(all_embeddings) = 1
    /\ top_k = 5
    /\ Len(simResult) = 1
    /\ simResult[1].cand = all_embeddings[1]

\* C5: for top_k >= 0 the result has exactly min(top_k, number of
\* non-excluded candidates) entries, and no non-excluded candidate left out
\* scores strictly higher than one that is in the result.
C5_TopKOfEligible ==
    (SimReturned /\ top_k >= 0) =>
        /\ Len(simResult) = Min2(top_k, Cardinality(Eligible))
        /\ \A p \in Eligible \ ResultPositions : \A j \in 1..Len(simResult) :
                ~RatLt(simResult[j].score,
                       cosine_similarity(query_embedding, all_embeddings[p].embedding))

C5_Witness ==
    /\ SimReturned
    /\ top_k >= 1
    /\ Len(simResult) = top_k
    /\ \E p \in Eligible \ ResultPositions :
            RatLt(cosine_similarity(query_embedding, all_embeddings[p].embedding),
                  simResult[Len(simResult)].score)

\* C6: when the pool is empty or every candidate is excluded, the call
\* returns the empty list and raises nothing.
C6_EmptyWhenNoCandidates ==
    (simPc # "ready" /\ Eligible = {}) => (simPc = "returned" /\ simResult = <<>>)

C6_Witness ==
    /\ SimReturned
    /\ Len(all_embeddings) >= 2
    /\ Eligible = {}
    /\ simResult = <<>>

(***************************************************************************)
(* Properties of mine_patterns (checked under SpecMine)                    *)
(***************************************************************************)
MineReturned == minePc = "returned"

\* C7 as stated: fewer than 10 transactions in the source give an empty
\* rule list without frequent-itemset discovery; with 10 or more, mining
\* proceeds.
C7_SkipBelowTen_Original ==
    MineReturned =>
        IF NumTransactions(store) < MinTransactions
        THEN patterns = {} /\ aprioriCalls = 0
        ELSE aprioriCalls = 1

\* C7 amended: the above holds when mlxtend is available; when it is not,
\* mine_patterns returns the empty list without fetching or mining.
C7_SkipBelowTen ==
    MineReturned =>
        IF HAS_MLXTEND
        THEN /\ transactions = store
             /\ IF NumTransactions(store) < MinTransactions
                THEN patterns = {} /\ aprioriCalls = 0
                ELSE aprioriCalls = 1
        ELSE patterns = {} /\ aprioriCalls = 0 /\ transactions = EmptyStore

C7_Witness ==
    /\ MineReturned
    /\ HAS_MLXTEND
    /\ NumTransactions(transactions) = 9
    /\ transactions[{"catering", "venue"}] = 9
    /\ patterns = {}
    /\ aprioriCalls = 0

\* C8: every emitted rule has support >= min_support, confidence >=
\* min_confidence and lift >= min_lift.
C8_RulesMeetThresholds ==
    \A r \in patterns :
        /\ RatLeq(min_support, r.support)
        /\ RatLeq(min_confidence, r.confidence)
        /\ RatLeq(min_lift, r.lift)

\* a rule is emitted while another split of a frequent itemset passes the
\* lift threshold and fails the confidence threshold
C8_Witness ==
    /\ MineReturned
    /\ patterns # {}
    /\ min_confidence = <<4, 5>>
    /\ \E k \in apriori(transactions, min_support) : \E a \in (SUBSET k) \ {{}, k} :
            /\ RatLeq(min_lift, Lift(transactions, a, k \ a))
            /\ RatLt(Confidence(transactions, a, k \ a), min_confidence)

\* C9: antecedent and consequent of every emitted rule are disjoint and
\* both non-empty.
C9_DisjointSides ==
    \A r \in patterns :
        /\ r.antecedent_categories \cap r.consequent_categories = {}
        /\ r.antecedent_categories # {}
        /\ r.consequent_categories # {}

C9_Witness ==
    /\ MineReturned
    /\ \E r \in patterns : Cardinality(r.antecedent_categories) = 2
    /\ \E r \in patterns : Cardinality(r.consequent_categories) = 2

\* C10: an emitted rule whose confidence is 1 carries conviction 0, and no
\* emitted rule carries an infinite or NaN conviction.
C10_ConvictionFinite ==
    \A r \in patterns :
        /\ r.confidence[1] = r.confidence[2] => r.conviction = <<0, 1>>
        /\ r.conviction[2] # 0

\* the store of scenario C: 15 transactions, catering and venue together
\* in 10 of them, catering in 12
ScenarioC ==
    /\ NumTransactions(store) = 15
    /\ Count(store, {"catering", "venue"}) = 10
    /\ Count(store, {"catering"}) = 12

\* C20 as stated: in scenario C mine_patterns with default thresholds emits
\* the rule {catering} -> {venue} with support 10/15 and confidence 10/12.
C20_ScenarioC_Original ==
    (MineReturned /\ ScenarioC) =>
        \E r \in patterns :
            /\ r.antecedent_categories = {"catering"}
            /\ r.consequent_categories = {"venue"}
            /\ RatEq(r.support, <<10, 15>>)
            /\ RatEq(r.confidence, <<10, 12>>)

\* C20 amended: the rule is emitted, with those values and a lift above 1,
\* when mlxtend is available and venue occurs in at most 12 of the 15
\* transactions.
C20_ScenarioC ==
    (MineReturned /\ HAS_MLXTEND /\ ScenarioC /\ Count(store, {"venue"}) <= 12) =>
        \E r \in patterns :
            /\ r.antecedent_categories = {"catering"}
            /\ r.consequent_categories = {"venue"}
            /\ RatEq(r.support, <<10, 15>>)
            /\ RatEq(r.confidence, <<10, 12>>)
            /\ RatLt(<<1, 1>>, r.lift)

C20_Witness ==
    /\ MineReturned
    /\ HAS_MLXTEND
    /\ ScenarioC
    /\ Count(store, {"venue"}) = 11
    /\ \E r \in patterns :
            /\ r.antecedent_categories = {"catering"}
            /\ r.consequent_categories = {"venue"}
            /\ r.support = <<10, 15>>
            /\ r.confidence = <<10, 12>>

\* C25: every rule returned by one mine_patterns call carries as
\* event_context the event_type argument of that call (None when the call
\* had no filter).
C25_EventContextIsArgument ==
    MineReturned => \A r \in patterns : r.event_context = event_type

\* a call with event_type "wedding" returned rules
C25_Witness ==
    /\ MineReturned
    /\ event_type = "wedding"
    /\ \E r \in patterns : r.event_context = "wedding"

\* a rule without its event_context field
WithoutContext(r) == [f \in (DOMAIN r) \ {"event_context"} |-> r[f]]

\* C29: event_type decides neither the rows fetched nor the rules mined:
\* on the same store a call with any other event_type returns the same
\* rules up to their event_context.
C29_EventTypeHasNoInfluence ==
    (MineReturned /\ HAS_MLXTEND) =>
        /\ transactions = store
        /\ \A et \in EventTypes :
              {WithoutContext(r) : r \in patterns}
                 = {WithoutContext(r) :
                       r \in MinedPatterns(FetchTransactions(store, et), min_support,
                                           min_confidence, min_lift, et)}

\* a call with event_type "wedding" on a store holding baskets without a
\* venue returned several rules, one of them without venue
C29_Witness ==
    /\ MineReturned
    /\ HAS_MLXTEND
    /\ event_type = "wedding"
    /\ store[{"photography", "florist"}] > 0
    /\ Cardinality(patterns) >= 2
    /\ \E r \in patterns :
            "venue" \notin (r.antecedent_categories \cup r.consequent_categories)

(***************************************************************************)
(* Properties of detect_events (checked under SpecDet)                     *)
(***************************************************************************)
DetReturned == detPc = "returned"

\* C11: every returned DetectedEvent has a confidence within [0, 1] that is
\* at least 0.3.
C11_ConfidenceInRange ==
    DetReturned =>
        \A i \in 1..Len(detected) :
            /\ detected[i].confidence >= 0
            /\ detected[i].confidence <= 100
            /\ detected[i].confidence >= 30

\* an event whose summed confidence exceeds 1 is returned, while another
\* archetype with a positive confidence below 0.3 is dropped
C11_Witness ==
    /\ DetReturned
    /\ \E i \in 1..Len(detected) :
            /\ detected[i].confidence = 100
            /\ confidenceOf[detected[i].event_type] > 100
    /\ \E a \in Range(ArchetypeOrder) :
            /\ confidenceOf[a] \in 1..29
            /\ \A i \in 1..Len(detected) : detected[i].event_type # a

\* C12: the returned list is sorted by non-increasing confidence.
C12_SortedByConfidence ==
    DetReturned =>
        \A i \in 1..(Len(detected) - 1) : detected[i].confidence >= detected[i + 1].confidence

\* the sort moved an event: a later archetype outranks an earlier one
C12_Witness ==
    /\ DetReturned
    /\ Len(detected) >= 2
    /\ detected[1].confidence > detected[2].confidence
    /\ detected[1].event_type = "childbirth"
    /\ detected[2].event_type = "wedding"

\* the inputs of scenario A: searches containing "wedding" and "bridal" (and
\* no other wedding keyword), the two viewed categories venue and catering,
\* no booking
ScenarioA ==
    /\ {<<"Weddings">>, <<"bridal">>} \subseteq Range(recent_searches)
    /\ <<"bride", "groom", "vows">> \notin Range(recent_searches)
    /\ viewed_categories \in {<<"venue", "catering">>, <<"catering", "venue">>}
    /\ booked_categories = <<>>

\* C19 as stated: in scenario A a wedding event is returned with confidence
\* 0.4 and a keyword_matches and a category_views trigger signal.
C19_ScenarioA_Original ==
    (DetReturned /\ ScenarioA) =>
        \E i \in 1..Len(detected) :
            /\ detected[i].event_type = "wedding"
            /\ detected[i].confidence = 40
            /\ {"keyword_matches", "category_views"}
                  \subseteq {t.kind : t \in Range(detected[i].trigger_signals)}

\* C19 amended: in scenario A the two matching keywords contribute 0.2, so
\* the wedding event has confidence 0.5 (0.2 + 2 x 0.15), with the trigger
\* signals keyword_matches:2 and category_views:2.
C19_ScenarioA ==
    (DetReturned /\ ScenarioA) =>
        \E i \in 1..Len(detected) :
            /\ detected[i].event_type = "wedding"
            /\ detected[i].confidence = 50
            /\ detected[i].trigger_signals =
                  <<[kind |-> "keyword_matches", count |-> 2],
                    [kind |-> "category_views", count |-> 2]>>

C19_Witness ==
    /\ DetReturned
    /\ ScenarioA
    /\ Len(recent_searches) = 2
    /\ \E i \in 1..Len(detected) :
            detected[i].event_type = "wedding" /\ detected[i].confidence = 50

\* The counts expected for the inputs above, worked out on the strings
\* themselves: "wedding" lies in "weddings"; "bridal", "bride", "groom",
\* "vows" and "baby" are words of one search string each; "baby shower" is
\* in the joined text when the search "baby" is directly followed by the
\* search "shower"; no other keyword of the catalog occurs.
HasSearch(s) == \E i \in 1..Len(recent_searches) : recent_searches[i] = s

BabyThenShower ==
    \E i \in 1..(Len(recent_searches) - 1) :
        recent_searches[i] = <<"baby">> /\ recent_searches[i + 1] = <<"shower">>

ExpectedKeywords(a) ==
    IF a = "wedding"
    THEN (IF HasSearch(<<"Weddings">>) THEN 1 ELSE 0)
         + (IF HasSearch(<<"bridal">>) THEN 1 ELSE 0)
         + (IF HasSearch(<<"bride", "groom", "vows">>) THEN 3 ELSE 0)
    ELSE IF a = "childbirth"
    THEN (IF HasSearch(<<"baby">>) THEN 1 ELSE 0) + (IF BabyThenShower THEN 1 ELSE 0)
    ELSE 0

\* how many entries of the list cats are c
Occurrences(cats, c) == Cardinality({i \in 1..Len(cats) : cats[i] = c})

\* the entries of cats, each counted as often as it occurs, that are signal
\* categories of archetype a
ExpectedCategories(a, cats) ==
    SumOver([c \in Range(cats) |->
                IF c \in Range(EVENT_PATTERNS[a].category_signals)
                THEN Occurrences(cats, c) ELSE 0],
            Range(cats))

ExpectedViews(a) == ExpectedCategories(a, viewed_categories)
ExpectedBookings(a) == ExpectedCategories(a, booked_categories)

\* C21: for each archetype the confidence before the clamp is
\* min(k * 0.1, 0.3) + (v * boost if v >= min_category_matches else 0)
\* + b * 0.25, with k the keywords found in the joined lower-cased searches,
\* v the viewed and b the booked categories in the archetype's signal list.
C21_ConfidenceFormula ==
    DetReturned =>
        \A a \in Range(ArchetypeOrder) :
            LET p == EVENT_PATTERNS[a]
                k == ExpectedKeywords(a)
                v == ExpectedViews(a)
                b == ExpectedBookings(a)
            IN confidenceOf[a] =
                  Min2(k * 10, 30)
                  + (IF v >= p.min_category_matches
                     THEN v * p.confidence_boost_per_match ELSE 0)
                  + b * 25

\* four wedding keywords (the cap applies), two viewed and one booked
\* wedding category: 0.3 + 0.3 + 0.25
C21_Witness ==
    /\ DetReturned
    /\ ExpectedKeywords("wedding") = 4
    /\ ExpectedViews("wedding") = 2
    /\ ExpectedBookings("wedding") = 1
    /\ confidenceOf["wedding"] = 85

\* no search, viewed category or booked category matches any archetype
NoSignalMatches ==
    \A a \in Range(ArchetypeOrder) :
        ExpectedKeywords(a) = 0 /\ ExpectedViews(a) = 0 /\ ExpectedBookings(a) = 0

\* C22: exactly one DetectedEvent is returned for each archetype whose
\* confidence before the clamp is >= 0.3 and none for any other archetype;
\* when nothing matches any archetype the result is the empty list.
C22_OneEventPerQualifyingArchetype ==
    DetReturned =>
        /\ \A a \in Range(ArchetypeOrder) :
              Cardinality({i \in 1..Len(detected) : detected[i].event_type = a})
                 = (IF confidenceOf[a] >= 30 THEN 1 ELSE 0)
        /\ \A i \in 1..Len(detected) : detected[i].event_type \in Range(ArchetypeOrder)
        /\ NoSignalMatches => detected = <<>>

\* one archetype is exactly at 0.3 and returned, another has a positive
\* confidence below 0.3 and is dropped
C22_Witness ==
    /\ DetReturned
    /\ Len(detected) = 1
    /\ detected[1].event_type = "wedding"
    /\ confidenceOf["wedding"] = 30
    /\ confidenceOf["childbirth"] \in 1..29

\* the position of an archetype in the catalog
CatalogIndex(a) == CHOOSE i \in 1..Len(ArchetypeOrder) : ArchetypeOrder[i] = a

\* the two events hold the same float
EqualConfidence(x, y) == x.confidence = y.confidence /\ x.rounding = y.rounding

\* C23: two returned events of equal confidence (two events clamped to 1.0
\* included) are in catalog order (wedding, relocation, childbirth,
\* business_launch), whatever the order of the input signals.
C23_TiesInCatalogOrder ==
    DetReturned =>
        \A i, j \in 1..Len(detected) :
            (i < j /\ EqualConfidence(detected[i], detected[j]))
                => CatalogIndex(detected[i].event_type) < CatalogIndex(detected[j].event_type)

\* wedding and childbirth are both clamped to 1.0, and the signals that
\* make childbirth exceed 1 come first in the input
C23_Witness ==
    /\ DetReturned
    /\ Len(detected) >= 2
    /\ detected[1].event_type = "wedding"
    /\ detected[2].event_type = "childbirth"
    /\ EqualConfidence(detected[1], detected[2])
    /\ detected[1].confidence = 100
    /\ confidenceOf["wedding"] > 100
    /\ confidenceOf["childbirth"] > confidenceOf["wedding"]
    /\ Len(recent_searches) = 2
    /\ recent_searches[1] = <<"baby">>

\* the descriptors expected for archetype a
ExpectedTriggers(a) ==
    LET p == EVENT_PATTERNS[a]
        k == ExpectedKeywords(a)
        v == ExpectedViews(a)
        b == ExpectedBookings(a)
    IN (IF k > 0 THEN <<[kind |-> "keyword_matches", count |-> k]>> ELSE <<>>)
       \o (IF v >= p.min_category_matches
           THEN <<[kind |-> "category_views", count |-> v]>> ELSE <<>>)
       \o (IF b > 0 THEN <<[kind |-> "category_bookings", count |-> b]>> ELSE <<>>)

\* C24: the trigger_signals of every returned event hold one descriptor for
\* each contribution that fired and none for one that did not, in the order
\* keyword_matches, category_views, category_bookings, each with its count.
C24_TriggerSignals ==
    DetReturned =>
        \A i \in 1..Len(detected) :
            detected[i].trigger_signals = ExpectedTriggers(detected[i].event_type)

\* one event with all three descriptors, another without the keyword one
C24_Witness ==
    /\ DetReturned
    /\ \E i \in 1..Len(detected) :
            /\ Len(detected[i].trigger_signals) = 3
            /\ detected[i].trigger_signals[3].count = 2
    /\ \E i \in 1..Len(detected) :
            /\ Len(detected[i].trigger_signals) = 2
            /\ detected[i].trigger_signals[1].kind = "category_views"

\* every entry of the list cats is c
AllEqual(cats, c) == cats # <<>> /\ \A i \in 1..Len(cats) : cats[i] = c

\* the count carried by the descriptor of the given kind, 0 without one
TriggerCount(e, kind) ==
    IF \E t \in Range(e.trigger_signals) : t.kind = kind
    THEN (CHOOSE t \in Range(e.trigger_signals) : t.kind = kind).count
    ELSE 0

\* C30: viewed and booked categories are counted with multiplicity: a
\* signal category listed n times counts n times, so one category viewed
\* twice meets a min_category_matches of 2 and a category booked n times
\* adds n * 0.25.
C30_CountedWithMultiplicity ==
    DetReturned =>
        \A a \in Range(ArchetypeOrder) :
            \A c \in Range(EVENT_PATTERNS[a].category_signals) :
                LET p == EVENT_PATTERNS[a]
                    n == Len(viewed_categories)
                    m == Len(booked_categories)
                IN /\ (AllEqual(viewed_categories, c) /\ n >= p.min_category_matches)
                        => /\ confidenceOf[a] >= n * p.confidence_boost_per_match
                           /\ \A i \in 1..Len(detected) :
                                 detected[i].event_type = a
                                    => TriggerCount(detected[i], "category_views") = n
                   /\ AllEqual(booked_categories, c)
                        => /\ confidenceOf[a] >= m * 25
                           /\ \A i \in 1..Len(detected) :
                                 detected[i].event_type = a
                                    => TriggerCount(detected[i], "category_bookings") = m

\* venue viewed twice and nothing else: the wedding event is returned at
\* 0.3 with category_views:2; legal booked twice gives business_launch 0.5
C30_Witness ==
    /\ DetReturned
    /\ recent_searches = <<>>
    /\ viewed_categories = <<"venue", "venue">>
    /\ booked_categories = <<"legal", "legal">>
    /\ \E i \in 1..Len(detected) :
            /\ detected[i].event_type = "wedding"
            /\ detected[i].confidence = 30
            /\ TriggerCount(detected[i], "category_views") = 2
    /\ \E i \in 1..Len(detected) :
            /\ detected[i].event_type = "business_launch"
            /\ detected[i].confidence = 50
            /\ TriggerCount(detected[i], "category_bookings") = 2

(***************************************************************************)
(* Properties of run_daily_jobs (checked under SpecOrch)                   *)
(***************************************************************************)
\* C13: no two mining runs are ever in progress at once.
C13_NoConcurrentMining == Cardinality({j \in Jobs : orchPc[j] = "fetching"}) <= 1

\* C14: a failing data-store fetch never leaves run_daily_jobs as an
\* exception.
C14_FetchFailureContained == \A j \in Jobs : orchPc[j] # "raised"

\* C15: once a batch run has completed, the rule sink holds exactly the
\* rules mined in that run.
C15_SinkHoldsMinedRules == \A j \in Jobs : orchPc[j] = "done" => ruleSink = orchPatterns[j]

\* C26: one invocation of run_daily_jobs calls mine_patterns, and so the
\* transaction fetch, at most once, whether the run returns rules, returns
\* none or fails: there is no retry.
C26_NoRetry ==
    \A j \in Jobs :
        /\ mineCalls[j] <= 1
        /\ fetchCalls[j] <= mineCalls[j]
        /\ orchPc[j] # "idle" => mineCalls[j] = 1

\* one invocation has failed in its fetch, another has returned rules
C26_Witness ==
    \E i, j \in Jobs :
        /\ orchPc[i] = "raised"
        /\ orchPc[j] = "done"
        /\ orchPatterns[j] # {}
        /\ fetchCalls[i] = 1
        /\ fetchCalls[j] = 1

(***************************************************************************)
(* Properties of EmbeddingService (checked under SpecEmb, SpecEmbThreads)  *)
(***************************************************************************)
\* the vector a call for the text returns when no other call runs
AloneVector(text) ==
    IF model # NoModel THEN Encode(model, text)
    ELSE [strategy |-> "fallback", text |-> NoText, seed |-> hashOf[text].lo,
          pos |-> 0, dim |-> FallbackDim]

\* C16: when the model load fails or the encoder library is absent, the
\* service is still constructed, every generate_embedding call uses the
\* fallback, and the load is never tried again.
C16_FallbackIsPermanent ==
    (embInit = "constructed" /\ (loadFailed \/ ~HAS_TRANSFORMERS)) =>
        /\ model = NoModel
        /\ loadCalls = (IF HAS_TRANSFORMERS THEN 1 ELSE 0)
        /\ \A h \in embHistory : h.vector.strategy = "fallback"

C16_Witness ==
    /\ embInit = "constructed"
    /\ loadFailed
    /\ embCalls = 3
    /\ Cardinality(embHistory) = 2
    /\ \A t \in Threads : callPc[t] = "idle"

C18_CallsDoNotInterfere ==
    (Cardinality({h.text : h \in embHistory}) = embCalls) =>
        \A h \in embHistory : h.vector = AloneVector(h.text)

(***************************************************************************)
(* Properties of the query path as a whole (checked under SpecQuery)       *)
(***************************************************************************)
\* what the callers passed
Arguments == <<query_embedding, all_embeddings, top_k, exclude_ids,
               recent_searches, viewed_categories, booked_categories>>

\* C27: no call of generate_embedding, find_similar_services or
\* detect_events changes an argument its caller passed (query vector,
\* candidate pool, exclusion list, signal lists).
C27_ArgumentsUnchanged == [][Arguments' = Arguments]_vars

\* find_similar_services called without an exclusion list, detect_events
\* and two embedding calls have all returned
C27_Witness ==
    /\ simPc = "returned"
    /\ exclude_ids = NoList
    /\ Len(simResult) = 1
    /\ DetReturned
    /\ detected # <<>>
    /\ embCalls >= 2
    /\ callPc[1] = "idle"

\* C28: nothing is cached: whatever calls have been made,
\* EmbeddingService.embeddings_cache is empty.
C28_NothingCached == embeddings_cache = {}

\* embeddings of two texts, a similarity query, a detection and a mining
\* run have returned results
C28_Witness ==
    /\ embInit = "constructed"
    /\ {h.text : h \in embHistory} = Texts
    /\ callPc[1] = "idle"
    /\ simPc = "returned"
    /\ simResult # <<>>
    /\ DetReturned
    /\ detected # <<>>
    /\ MineReturned
    /\ patterns # {}

====
